---- MODULE Spec2Model ----
(***************************************************************************)
(* Model of the fq-compressor benchmark drivers:                           *)
(*   benchmark/benchmark.py           BenchmarkRunner   (prog = "benchmark")*)
(*   benchmark/compiler_benchmark.py  CompilerBenchmark (prog = "compiler") *)
(*                                                                         *)
(* A run of the driver is a single thread of control.  Its position is pc: *)
(*   "idle"        no call in progress                                     *)
(*   "loop"        inside the sweep loops, between two trials              *)
(*   "compress"    blocked in the executor on the compress process         *)
(*   "decompress"  blocked in the executor on the decompress process       *)
(*   "returned"    the trial runner has returned its result list           *)
(*   "raised"      the trial runner has raised an exception                *)
(*   "done"        the sweep has returned                                  *)
(*   "aborted"     the sweep was left by an exception                      *)
(* Times are whole seconds, sizes are bytes, texts are sequences of        *)
(* one-character strings, None is kept apart from the empty text.          *)
(***************************************************************************)
EXTENDS Integers, Sequences, FiniteSets, TLC

(* ------------------------------ bounds -------------------------------- *)
MaxRuns == 2
MaxOrphans == 1
MaxRows == 2
MaxSamples == 4
MaxStored == 2

(* ------------------------- program constants -------------------------- *)
Timeout == 3600
ErrMax == 200
MiB == 1048576
KiB == 1024

(* ------------------------------ texts --------------------------------- *)
DigitChars == <<"0", "1", "2", "3", "4", "5", "6", "7", "8", "9">>

RECURSIVE DecimalText(_)
DecimalText(n) ==
    IF n < 10 THEN <<DigitChars[n + 1]>>
    ELSE DecimalText(n \div 10) \o <<DigitChars[(n % 10) + 1]>>

\* a diagnostic of n characters, no two neighbours alike
DiagText(n) == [i \in 1..n |-> DigitChars[(i % 10) + 1]]

TimeoutText == <<"T", "i", "m", "e", "o", "u", "t">>
ExceptionText == <<"O", "S", "E", "r", "r", "o", "r">>
EmptyText == <<>>

NoneVal == [none |-> TRUE, s |-> <<>>]
Text(s) == [none |-> FALSE, s |-> s]

\* Python s[:n]
Prefix(s, n) == SubSeq(s, 1, IF Len(s) < n THEN Len(s) ELSE n)

UnknownText == <<"u", "n", "k", "n", "o", "w", "n">>

\* Python s.strip() and s.split('\n')[0]
WhiteSpace == {" ", "\n"}

RECURSIVE LStrip(_)
LStrip(s) == IF s # <<>> /\ Head(s) \in WhiteSpace THEN LStrip(Tail(s)) ELSE s

RECURSIVE RStrip(_)
RStrip(s) ==
    IF s # <<>> /\ s[Len(s)] \in WhiteSpace
    THEN RStrip(SubSeq(s, 1, Len(s) - 1)) ELSE s

Strip(s) == RStrip(LStrip(s))

RECURSIVE FirstLine(_)
FirstLine(s) ==
    IF s = <<>> \/ Head(s) = "\n" THEN <<>>
    ELSE <<Head(s)>> \o FirstLine(Tail(s))

MismatchText(d, i) ==
    <<"S", "i", "z", "e", " ", "m", "i", "s", "m", "a", "t", "c", "h", ":", " ">>
        \o DecimalText(d) \o <<" ", "v", "s", " ">> \o DecimalText(i)

(* --------------------------- tool registry ---------------------------- *)
\* BenchmarkRunner.tools after _load_config: tool id -> output extension
ToolExtension == [fqc |-> ".fqc", gzip |-> ".gz"]
Registered == DOMAIN ToolExtension
\* ToolConfig.name: "name=tool_cfg.get('name', tool_id)"
ToolName == [fqc |-> "fqc", gzip |-> "gzip"]
\* the names of a configuration that gives them, and of one that gives none
NameConfigs == {ToolName, [fqc |-> "fq-compressor", gzip |-> "GNU gzip"]}
\* ToolConfig.version_cmd is set ("" when the configuration has none)
HasVersionCmd == [fqc |-> TRUE, gzip |-> FALSE]
\* ToolConfig.compress / .decompress: the command templates of a
\* configuration, texts with the placeholders as symbols of their own.  A
\* text is a sequence of symbols and "fqc" is always one symbol
CompressTemplate ==
    [fqc |-> <<"fqc", " compress -i ", "{input}", " -o ", "{output}", " -t ",
               "{threads}">>,
     gzip |-> <<"gzip -c ", "{input}", " > ", "{output}">>]
DecompressTemplate ==
    [fqc |-> <<"fqc", " decompress -i ", "{output}", " -o ", "{decompressed}",
               " -t ", "{threads}">>,
     gzip |-> <<"gzip -dc ", "{output}", " > ", "{decompressed}">>]
\* ToolConfig.extension as a text
ExtensionText == [fqc |-> <<".", "fqc">>, gzip |-> <<".gz">>]
\* "return 'fqc'  # Fall back to PATH"
FallbackBinary == <<"fqc">>
Compilers == {"GCC", "Clang"}
UnknownTool == "nope"

(* ------------------------------ files --------------------------------- *)
NoFile == -1
Fixture == <<"fixture", "">>
FileNames ==
    {Fixture, <<"d", "">>}
        \cup {<<"c", ToolExtension[x]>> : x \in Registered}
        \cup {<<"c", x>> : x \in Compilers}
        \cup {<<"d", x>> : x \in Compilers}
EmptyDir == [f \in FileNames |-> NoFile]

\* _get_file_size: the size, 0 when the path does not exist
FileSize(dir, name) == IF dir[name] = NoFile THEN 0 ELSE dir[name]
Exists(dir, name) == dir[name] # NoFile

\* the path of the compressed artifact inside the working directory
CompressedPath(p, tool) ==
    IF p = "benchmark" THEN <<"c", ToolExtension[tool]>> ELSE <<"c", tool>>
\* the path of the decompressed file inside the working directory
DecompressedPath(p, tool) ==
    IF p = "benchmark" THEN <<"d", "">> ELSE <<"d", tool>>

(* ----------------------------- metrics -------------------------------- *)
\* the quotient (num / scale) / den of naturals, den > 0; 0.0 is (0 / 1) / 1
Zero == [num |-> 0, scale |-> 1, den |-> 1]
IsZero(q) == q.num = 0
NonNegative(q) == q.num >= 0 /\ q.scale > 0 /\ q.den > 0

ratio(r) ==
    IF r.input_size = 0 THEN Zero
    ELSE [num |-> r.output_size, scale |-> 1, den |-> r.input_size]

speed_mb_s(r) ==
    IF r.elapsed_seconds = 0 THEN Zero
    ELSE [num |-> r.input_size, scale |-> MiB, den |-> r.elapsed_seconds]

(* ---------------------------- executor -------------------------------- *)
ExitKinds == {"ok", "nonzero", "timeout", "exception"}
ElapsedVals == {1, 2}

\* what subprocess.run captures on its stderr pipe when the process wrote
\* diag to its file descriptor 2: _run_timed_command runs
\* "/usr/bin/time -v <cmd> 2>&1", so descriptor 2 is the stdout pipe
CapturedStderr(p, diag) == IF p = "compiler" THEN EmptyText ELSE diag

\* _run_command / _run_timed_command: (elapsed, success, error)
RunCommand(p, kind, e, diag) ==
    CASE kind = "ok" -> [elapsed |-> e, success |-> TRUE, error |-> EmptyText]
      [] kind = "nonzero" ->
            [elapsed |-> e, success |-> FALSE,
             error |-> Prefix(CapturedStderr(p, diag), ErrMax)]
      [] kind = "timeout" ->
            [elapsed |-> Timeout, success |-> FALSE, error |-> TimeoutText]
      [] OTHER ->
            [elapsed |-> 0, success |-> FALSE, error |-> ExceptionText]

\* where the command runs under "/usr/bin/time -v" and that file is missing
\* the shell has nothing to run and exits with status 127; kind is how the
\* call would end with the shim in place
Outcome(p, shim, kind) ==
    IF p = "compiler" /\ ~shim /\ kind # "exception" THEN "nonzero" ELSE kind

\* the lines "/usr/bin/time -v" prints on its descriptor 2 after the command
\* has ended with a peak resident set of rss_kb kilobytes
MaxRssLabel == "Maximum resident set size"
TimeReport(rss_kb) ==
    <<[label |-> "Elapsed (wall clock) time", value |-> 1],
      [label |-> MaxRssLabel, value |-> rss_kb],
      [label |-> "Exit status", value |-> 0]>>

RECURSIVE ParsePeak(_, _)
\* the loop over result.stderr.split('\n'): each matching line sets
\* peak_memory to its value / 1024
ParsePeak(lines, peak) ==
    IF lines = <<>> THEN peak
    ELSE ParsePeak(Tail(lines),
                   IF Head(lines).label = MaxRssLabel
                   THEN [num |-> Head(lines).value, scale |-> KiB, den |-> 1]
                   ELSE peak)

\* the fourth component of what _run_timed_command returns (_run_command
\* measures no memory)
PeakMemory(p, shim, kind, rss_kb) ==
    IF p # "compiler" \/ Outcome(p, shim, kind) \notin {"ok", "nonzero"}
    THEN Zero
    ELSE ParsePeak(CapturedStderr(p, IF shim THEN TimeReport(rss_kb) ELSE <<>>),
                   Zero)

\* subprocess.run(shell=True) kills its direct child on timeout.  The
\* benchmarked tool is that child only when the shell replaced itself by the
\* command (execs); under "/usr/bin/time -v" it is always a descendant.
ToolIsDirectChild(p, execs) == p = "benchmark" /\ execs

\* is the benchmarked process still running when the executor returns
ToolSurvives(p, kind, execs) == kind = "timeout" /\ ~ToolIsDirectChild(p, execs)

(* ------------------------------ state --------------------------------- *)
VARIABLES
    prog,            \* which driver runs: "benchmark" or "compiler"
    input_gz,        \* the input file name ends with ".gz"
    src_size,        \* byte size of the uncompressed input
    binaries,        \* tools / compiler binaries resolvable on the host
    time_shim,       \* /usr/bin/time is installed on the host
    tool_names,      \* ToolConfig.name of the registered tools
    fqc_binary,      \* BenchmarkRunner.fqc_binary, a text
    pc,              \* position of the driver
    caller,          \* who called the trial runner: "sweep" or "direct"
    t,               \* locals of the running benchmark_tool / benchmark_binary,
                     \* with what it saw on disk: artifact (the compressed
                     \* file existed after the compress step) and dec_size
                     \* (the byte size of the decompressed file, 0 if none),
                     \* and with what its processes did: c_wrote and d_wrote
                     \* (the size of the file the compress / decompress
                     \* process wrote, NoFile when it wrote none)
    wd,              \* files of the caller-supplied / shared working directory
    wd_live,         \* that directory exists
    tmp,             \* files of the directory the trial runner made itself
    tmp_live,        \* that directory exists
    spawns,          \* processes spawned by the current trial, in order
    child,           \* the process the executor is blocked on, or "none"
    orphans,         \* benchmarked processes left running by a timed-out call
    last_run,        \* the last return of the executor
    ret,             \* what the last direct call of the trial runner gave back
    tool_ids,        \* run_benchmark: caller-supplied tool list
    tools,           \* available_tools / compilers to sweep
    threads_list,    \* caller-supplied thread counts
    runs,            \* runsPerConfig
    ti, ki, ri,      \* loop indices: tool, thread count, finished runs
    best_compress,   \* <<>> for None, <<r>> for a result
    best_decompress,
    suite,           \* suite.results / self.results
    pair_log,        \* result lists returned by the trials of the latest pair
    stored,          \* what the latest finished pair appended to the results
    unavailable_shown, \* the tool ids of the "Skipping unavailable tools" line
                     \* of the latest sweep, {} when no such line was printed
    versions,        \* ToolConfig.version of the registered tools
    probes,          \* the calls of _get_tool_version of the latest sweep
    trials,          \* the number of calls of the trial runner the latest
                     \* sweep has made
    data,            \* the 'results' list of the JSON file a report program read
    report,          \* what the latest report generation gave
    json_file,       \* the results file written by the latest export_json
    built            \* the commands benchmark_tool built last and the paths
                     \* it looks at after running them

env == <<prog, input_gz, src_size, binaries, time_shim, tool_names,
        fqc_binary>>
dirs == <<wd, wd_live, tmp, tmp_live>>
procs == <<spawns, child, orphans, last_run>>
sweep == <<tool_ids, tools, threads_list, runs, ti, ki, ri,
           best_compress, best_decompress, suite, pair_log, stored,
           unavailable_shown, versions, probes, trials>>
rep == <<data, report, json_file, built>>
vars == <<env, pc, caller, t, dirs, procs, ret, sweep, rep>>

\* BenchmarkResult / CompilerBenchmarkResult
\* (peak_memory_mb is a field of the second only, 0.0 stands in the first)
Result(tool, op, isize, osize, el, thr, ok, err, mem) ==
    [tool |-> tool, operation |-> op, input_size |-> isize,
     output_size |-> osize, elapsed_seconds |-> el, threads |-> thr,
     success |-> ok, error |-> err, peak_memory_mb |-> mem]

NoTrial ==
    [tool |-> "", threads |-> 0, own |-> FALSE, verify |-> FALSE,
     input_size |-> 0, compressed_size |-> 0, results |-> <<>>,
     artifact |-> FALSE, dec_size |-> 0, c_wrote |-> NoFile,
     d_wrote |-> NoFile]
NoRun ==
    [op |-> "none", kind |-> "none", elapsed |-> 0, success |-> FALSE,
     error |-> EmptyText, diag |-> EmptyText, tool_alive |-> FALSE,
     cmd |-> "none", rss_kb |-> 0, peak |-> Zero]
NoRet == [status |-> "none", results |-> <<>>]
\* what a report generation gave: status is "written", "skipped" (the
\* program ended without writing a report) or "error" (it was left by the
\* exception error); rows and more_rows are the rows of the result tables,
\* speedups the quotients of the cross-tool comparison, stats what
\* calculate_statistics returned, winner the name in the winner card (<<>>
\* when the report has no such card)
NoReport ==
    [by |-> "none", status |-> "none", error |-> "", rows |-> <<>>,
     more_rows |-> <<>>, speedups |-> <<>>, stats |-> <<>>, winner |-> <<>>]

\* no results file: status is "none", "written" (export_json has written the
\* file) or "loaded" (a program has read the file back); results is the
\* "results" array of the file, one list of (key, value text) per object
NoJson == [status |-> "none", results |-> <<>>]

\* no command built yet
NoCommands ==
    [tool |-> "", compressed |-> <<>>, decompressed |-> <<>>,
     args |-> [input |-> <<>>, output |-> <<>>, decompressed |-> <<>>,
               threads |-> <<>>],
     compress_cmd |-> <<>>, decompress_cmd |-> <<>>]

\* the working directory of the running trial
Dir == IF t.own THEN tmp ELSE wd

(* --------------------------- trial runner ----------------------------- *)
\* no lookup of the tool id
AnyToolKnown(p, tool) == TRUE

\* "tool = self.tools.get(tool_id); if not tool: return []"; benchmark_binary
\* has no registry
ToolKnown(p, tool) == p = "compiler" \/ tool \in Registered

\* benchmark_tool / benchmark_binary up to the start of the compress
\* process.  zcat_ok: the outcome of "zcat input > fixture" when it is run.
BeginTrial(who, tool, thr, own, verify, zcat_ok) ==
    LET dir0 == IF own THEN EmptyDir ELSE wd
        gz == prog = "compiler" /\ input_gz
        need_zcat == gz /\ ~Exists(dir0, Fixture)
        dir1 == IF need_zcat
                THEN [dir0 EXCEPT ![Fixture] = IF zcat_ok THEN src_size ELSE 0]
                ELSE dir0
        raised == need_zcat /\ ~zcat_ok
        isize == IF gz THEN FileSize(dir1, Fixture) ELSE src_size
        frame == [tool |-> tool, threads |-> thr, own |-> own,
                  verify |-> verify, input_size |-> isize,
                  compressed_size |-> 0, results |-> <<>>,
                  artifact |-> FALSE, dec_size |-> 0, c_wrote |-> NoFile,
                  d_wrote |-> NoFile]
    IN  /\ caller' = who
        /\ last_run' = NoRun
        /\ UNCHANGED orphans
        /\ IF ~ToolKnown(prog, tool)
           THEN /\ pc' = "returned"
                /\ t' = [frame EXCEPT !.input_size = 0]
                /\ spawns' = <<>>
                /\ child' = "none"
                /\ UNCHANGED dirs
           ELSE /\ t' = frame
                /\ spawns' = (IF need_zcat THEN <<"zcat">> ELSE <<>>)
                                \o (IF raised THEN <<>> ELSE <<"compress">>)
                /\ child' = IF raised THEN "none" ELSE "compress"
                /\ pc' = IF raised THEN "raised" ELSE "compress"
                /\ IF own
                   THEN /\ tmp' = IF raised THEN EmptyDir ELSE dir1
                        /\ tmp_live' = ~raised
                        /\ UNCHANGED <<wd, wd_live>>
                   ELSE /\ wd' = dir1
                        /\ wd_live' = (wd_live \/ prog = "benchmark")
                        /\ UNCHANGED <<tmp, tmp_live>>

\* a finally clause that removes nothing
LeaveBehind(dir1) ==
    IF t.own
    THEN /\ tmp' = dir1
         /\ UNCHANGED <<wd, wd_live, tmp_live>>
    ELSE /\ wd' = dir1
         /\ UNCHANGED <<wd_live, tmp, tmp_live>>

\* the finally clause: the directory goes when the runner made it
Cleanup(dir1) ==
    IF t.own
    THEN /\ tmp' = EmptyDir
         /\ tmp_live' = FALSE
         /\ UNCHANGED <<wd, wd_live>>
    ELSE /\ wd' = dir1
         /\ UNCHANGED <<wd_live, tmp, tmp_live>>

KeepDir(dir1) ==
    IF t.own
    THEN /\ tmp' = dir1
         /\ UNCHANGED <<wd, wd_live, tmp_live>>
    ELSE /\ wd' = dir1
         /\ UNCHANGED <<wd_live, tmp, tmp_live>>

\* "error if not success else None"
ErrorField(rc) == IF ~rc.success THEN Text(rc.error) ELSE NoneVal

\* the size on disk taken whether or not the process succeeded
SizeOnDisk(success, dir, name) == FileSize(dir, name)

\* "self._get_file_size(path) if success else 0"
SizeIfSuccess(success, dir, name) == IF success THEN FileSize(dir, name) ELSE 0

\* the decompress step started whenever a compressed file is there
DecompressIfExists(success, dir, name) == Exists(dir, name)

\* "if success and compressed.exists()"
ShouldDecompress(success, dir, name) == success /\ Exists(dir, name)

\* the compress process ends (or is given up); the compress result is
\* recorded and the decompress process is started or the runner returns.
\* kind: how the call ended; e: seconds until the process ended; wrote: the
\* size of the output file the process wrote, NoFile when it wrote none;
\* execs: the shell replaced itself by the command; diag: what the process
\* printed on its descriptor 2
CompressExit(kind, e, wrote, execs, diag, rss_kb) ==
    /\ pc = "compress"
    /\ kind \in {"timeout", "exception"} => e = 1
    /\ kind = "exception" => wrote = NoFile
    /\ kind # "nonzero" => diag = EmptyText
    /\ Outcome(prog, time_shim, kind) # kind =>
            wrote = NoFile /\ diag = EmptyText /\ e = 1 /\ execs
    /\ rss_kb # 0 <=>
            prog = "compiler" /\ time_shim /\ kind \in {"ok", "nonzero"}
    /\ ToolSurvives(prog, Outcome(prog, time_shim, kind), execs) =>
            orphans < MaxOrphans
    /\ LET out == Outcome(prog, time_shim, kind)
           rc == RunCommand(prog, out, e, diag)
           memory == PeakMemory(prog, time_shim, kind, rss_kb)
           cname == CompressedPath(prog, t.tool)
           dir1 == IF wrote # NoFile THEN [Dir EXCEPT ![cname] = wrote] ELSE Dir
           compressed_size == SizeIfSuccess(rc.success, dir1, cname)
           res == Result(t.tool, "compress", t.input_size, compressed_size,
                         rc.elapsed, t.threads, rc.success, ErrorField(rc),
                         memory)
           go == ShouldDecompress(rc.success, dir1, cname)
       IN  /\ t' = [t EXCEPT !.results = Append(@, res),
                             !.compressed_size = compressed_size,
                             !.artifact = Exists(dir1, cname),
                             !.c_wrote = wrote]
           /\ last_run' = [op |-> "compress", kind |-> out,
                           elapsed |-> rc.elapsed, success |-> rc.success,
                           error |-> rc.error, diag |-> diag,
                           tool_alive |-> ToolSurvives(prog, out, execs),
                           cmd |-> kind, rss_kb |-> rss_kb, peak |-> memory]
           /\ orphans' = IF ToolSurvives(prog, out, execs)
                         THEN orphans + 1 ELSE orphans
           /\ IF go
              THEN /\ pc' = "decompress"
                   /\ child' = "decompress"
                   /\ spawns' = Append(spawns, "decompress")
                   /\ KeepDir(dir1)
              ELSE /\ pc' = "returned"
                   /\ child' = "none"
                   /\ UNCHANGED spawns
                   /\ Cleanup(dir1)
    /\ UNCHANGED <<env, rep, caller, ret, sweep>>

\* the size check of benchmark_tool (benchmark_binary has none)
Verify(res, dir1, dname) ==
    IF /\ prog = "benchmark"
       /\ t.verify
       /\ res.success
       /\ Exists(dir1, dname)
       /\ res.output_size # t.input_size
    THEN [res EXCEPT !.error = Text(MismatchText(res.output_size, t.input_size))]
    ELSE res

\* the size of the original input as the input of the decompress step
OriginalInput(frame) == frame.input_size

\* "input_size=compressed_size" of the decompress result
DecompressInput(frame) == frame.compressed_size

\* the decompress process ends (or is given up); the decompress result is
\* recorded and checked, the runner returns
DecompressExit(kind, e, wrote, execs, diag, rss_kb) ==
    /\ pc = "decompress"
    /\ kind \in {"timeout", "exception"} => e = 1
    /\ kind = "exception" => wrote = NoFile
    /\ kind # "nonzero" => diag = EmptyText
    /\ Outcome(prog, time_shim, kind) # kind =>
            wrote = NoFile /\ diag = EmptyText /\ e = 1 /\ execs
    /\ rss_kb # 0 <=>
            prog = "compiler" /\ time_shim /\ kind \in {"ok", "nonzero"}
    /\ ToolSurvives(prog, Outcome(prog, time_shim, kind), execs) =>
            orphans < MaxOrphans
    /\ LET out == Outcome(prog, time_shim, kind)
           rc == RunCommand(prog, out, e, diag)
           memory == PeakMemory(prog, time_shim, kind, rss_kb)
           dname == DecompressedPath(prog, t.tool)
           dir1 == IF wrote # NoFile THEN [Dir EXCEPT ![dname] = wrote] ELSE Dir
           decompressed_size == SizeIfSuccess(rc.success, dir1, dname)
           res == Result(t.tool, "decompress", DecompressInput(t),
                         decompressed_size, rc.elapsed, t.threads, rc.success,
                         ErrorField(rc), memory)
       IN  /\ t' = [t EXCEPT !.results = Append(@, Verify(res, dir1, dname)),
                             !.dec_size = FileSize(dir1, dname),
                             !.d_wrote = wrote]
           /\ last_run' = [op |-> "decompress", kind |-> out,
                           elapsed |-> rc.elapsed, success |-> rc.success,
                           error |-> rc.error, diag |-> diag,
                           tool_alive |-> ToolSurvives(prog, out, execs),
                           cmd |-> kind, rss_kb |-> rss_kb, peak |-> memory]
           /\ orphans' = IF ToolSurvives(prog, out, execs)
                         THEN orphans + 1 ELSE orphans
           /\ pc' = "returned"
           /\ child' = "none"
           /\ UNCHANGED spawns
           /\ Cleanup(dir1)
    /\ UNCHANGED <<env, rep, caller, ret, sweep>>

\* a process that outlived its executor call ends by itself
OrphanExit ==
    /\ orphans > 0
    /\ orphans' = orphans - 1
    /\ UNCHANGED <<env, rep, pc, caller, t, dirs, spawns, child, last_run, ret, sweep>>

(* ------------------------ command construction ------------------------ *)
\* what _find_fqc_binary can return
FqcBinaries ==
    {FallbackBinary, <<"/repo/build/src/", "fqc">>, <<"/usr/bin/", "fqc">>}
\* input files, temporary directories and thread counts of the calls
InputFiles ==
    [dir : {<<"/data/">>, <<"/data/", "fqc", "/">>},
     stem : {<<"reads">>, <<"fqc", "_reads">>},
     suffix : {<<".fastq">>}]
TempDirs == {<<"/tmp/tmpab12cd34/">>, <<"/work/">>, <<"/work/", "fqc", "/">>}
CommandThreads == {1, 4}

RECURSIVE Format(_, _)
\* template.format(input=..., output=..., decompressed=..., threads=...)
Format(template, args) ==
    IF template = <<>> THEN <<>>
    ELSE (CASE Head(template) = "{input}" -> args.input
            [] Head(template) = "{output}" -> args.output
            [] Head(template) = "{decompressed}" -> args.decompressed
            [] Head(template) = "{threads}" -> args.threads
            [] OTHER -> <<Head(template)>>) \o Format(Tail(template), args)

RECURSIVE Replace(_, _, _)
\* s.replace(old, new) for a symbol old
Replace(s, old, new) ==
    IF s = <<>> THEN <<>>
    ELSE (IF Head(s) = old THEN new ELSE <<Head(s)>>)
            \o Replace(Tail(s), old, new)

\* str(Path(dir) / (stem + suffix))
PathText(file) == file.dir \o file.stem \o file.suffix

\* benchmark_tool from the choice of the directory to the two commands:
\* compressed and decompressed are the paths it looks at afterwards
BuildCommands ==
    /\ prog = "benchmark"
    /\ \E tool \in Registered, input \in InputFiles, temp_dir \in TempDirs,
          thr \in CommandThreads :
        LET basename == input.stem
            compressed == temp_dir \o basename \o ExtensionText[tool]
            decompressed ==
                temp_dir \o basename \o <<"_decompressed.fastq">>
            args == [input |-> PathText(input), output |-> compressed,
                     decompressed |-> decompressed,
                     threads |-> DecimalText(thr)]
        IN  built' =
                [tool |-> tool, compressed |-> compressed,
                 decompressed |-> decompressed, args |-> args,
                 compress_cmd |->
                    Replace(Format(CompressTemplate[tool], args), "fqc",
                            fqc_binary),
                 decompress_cmd |->
                    Replace(Format(DecompressTemplate[tool], args), "fqc",
                            fqc_binary)]
    /\ UNCHANGED <<env, data, report, json_file, pc, caller, t, dirs, procs,
                   ret, sweep>>

(* ------------------- the trial runner called directly ------------------ *)
TrialTools == {"fqc", UnknownTool}
TrialThreads == {4}

DirectCall ==
    /\ pc = "idle"
    /\ \E tool \in (IF prog = "benchmark" THEN TrialTools ELSE {"GCC"}),
          thr \in TrialThreads, own \in BOOLEAN, verify \in BOOLEAN,
          zcat_ok \in BOOLEAN :
            /\ prog = "compiler" => verify
            /\ BeginTrial("direct", tool, thr, own, verify, zcat_ok)
    /\ ret' = NoRet
    /\ UNCHANGED <<env, rep, sweep>>

DirectReturn ==
    /\ pc \in {"returned", "raised"}
    /\ caller = "direct"
    /\ ret' = [status |-> pc, results |-> t.results]
    /\ pc' = "idle"
    /\ UNCHANGED <<env, rep, caller, t, dirs, procs, sweep>>

(* ---------------------- inputs of the direct calls --------------------- *)
SrcSizes == {0, 4}
CSizes == {0, 2}
DSizes == {0, 3, 4}
DiagLens == {0, 200, 201}
RssVals == {2048}

InitCommon ==
    /\ pc = "idle"
    /\ caller = "direct"
    /\ t = NoTrial
    /\ wd = EmptyDir
    /\ tmp = EmptyDir
    /\ tmp_live = FALSE
    /\ spawns = <<>>
    /\ child = "none"
    /\ orphans = 0
    /\ last_run = NoRun
    /\ ret = NoRet
    /\ tool_ids = <<>>
    /\ tools = <<>>
    /\ threads_list = <<>>
    /\ runs = 0
    /\ ti = 1 /\ ki = 1 /\ ri = 0
    /\ best_compress = <<>>
    /\ best_decompress = <<>>
    /\ pair_log = <<>>
    /\ stored = <<>>
    /\ unavailable_shown = {}
    /\ versions = [x \in Registered |-> UnknownText]
    /\ probes = <<>>
    /\ trials = 0
    /\ report = NoReport
    /\ json_file = NoJson
    /\ built = NoCommands

InitTrial ==
    /\ prog \in {"benchmark", "compiler"}
    /\ input_gz \in BOOLEAN
    /\ prog = "benchmark" => ~input_gz
    /\ src_size \in SrcSizes
    /\ binaries = IF prog = "benchmark" THEN Registered ELSE Compilers
    /\ time_shim \in BOOLEAN
    /\ prog = "benchmark" => time_shim
    /\ wd_live = TRUE
    /\ tool_names = ToolName
    /\ fqc_binary = FallbackBinary
    /\ suite = <<>>
    /\ data = <<>>
    /\ InitCommon

TrialCompressExit ==
    \E kind \in ExitKinds, e \in ElapsedVals, wrote \in {NoFile} \cup CSizes,
       execs \in BOOLEAN, diag \in {DiagText(n) : n \in DiagLens},
       rss_kb \in {0} \cup RssVals :
        CompressExit(kind, e, wrote, execs, diag, rss_kb)

TrialDecompressExit ==
    \E kind \in ExitKinds, e \in ElapsedVals, wrote \in {NoFile} \cup DSizes,
       execs \in BOOLEAN, diag \in {DiagText(n) : n \in DiagLens},
       rss_kb \in {0} \cup RssVals :
        DecompressExit(kind, e, wrote, execs, diag, rss_kb)

NextTrial ==
    \/ DirectCall
    \/ TrialCompressExit
    \/ TrialDecompressExit
    \/ DirectReturn
    \/ OrphanExit

SpecTrial == InitTrial /\ [][NextTrial]_vars

(* ------------------------------ sweep --------------------------------- *)
\* tool lists and thread lists a caller passes to run_benchmark
ToolLists == {<<"fqc">>, <<"gzip", "fqc">>, <<UnknownTool, "fqc">>}
ThreadLists == {<<4>>, <<4, 1>>}

RECURSIVE Filter(_, _)
\* [x for x in l if x in S]
Filter(l, S) ==
    IF l = <<>> THEN <<>>
    ELSE (IF Head(l) \in S THEN <<Head(l)>> ELSE <<>>) \o Filter(Tail(l), S)

\* the sweeps explored repeat along one of tools, thread counts and runs
OneDimension(a, b, c) ==
    \/ a <= 1 /\ b <= 1
    \/ a <= 1 /\ c <= 1
    \/ b <= 1 /\ c <= 1

\* or run every pair of a grid of tools and thread counts once; a sweep of
\* more than one trial is explored verbose and with plain version probes
Explored(a, b, c) == OneDimension(a, b, c) \/ c = 1

\* _check_tool_available
CheckToolAvailable(tool_id) == tool_id \in Registered /\ tool_id \in binaries

\* set(l)
Range(l) == {l[i] : i \in DOMAIN l}

\* the place of x in the list l
Index(l, x) == CHOOSE i \in DOMAIN l : l[i] = x

\* _get_tool_version on a tool whose probe process ended as kind after
\* printing out on its stdout and err on its stderr (the timeout is 5 s)
VersionMax == 50
GetToolVersion(has_cmd, kind, out, err) ==
    IF ~has_cmd THEN UnknownText
    ELSE IF kind \in {"timeout", "exception"} THEN UnknownText
    ELSE LET version == IF Strip(out) # <<>> THEN Strip(out) ELSE Strip(err)
         IN  Prefix(FirstLine(version), VersionMax)

NoProbe == [kind |-> "none", out |-> EmptyText, err |-> EmptyText]

\* "for tool_id in available_tools: ... = self._get_tool_version(...)"; po
\* gives how the probe process of each tool ends
ProbeAll(available, po) ==
    [i \in DOMAIN available |->
        LET x == available[i]
            o == IF HasVersionCmd[x] THEN po[x] ELSE NoProbe
        IN  [tool |-> x, has_cmd |-> HasVersionCmd[x], kind |-> o.kind,
             out |-> o.out, err |-> o.err,
             version |-> GetToolVersion(HasVersionCmd[x], o.kind, o.out, o.err)]]

\* self.tools[tool_id].version after the probes pr
Probed(old, pr) ==
    [x \in DOMAIN old |->
        IF \E i \in DOMAIN pr : pr[i].tool = x
        THEN pr[CHOOSE i \in DOMAIN pr : pr[i].tool = x].version
        ELSE old[x]]

\* how the probe processes end in the sweeps explored
VersionLine == <<"1", ".", "0", "\n">>
NotFoundLine == <<"s", "h", ":", " ", "n", "o", "\n">>
PlainProbe == [kind |-> "ok", out |-> VersionLine, err |-> EmptyText]
SweepProbes ==
    {PlainProbe,
     [kind |-> "ok", out |-> EmptyText, err |-> EmptyText],
     [kind |-> "nonzero", out |-> EmptyText, err |-> NotFoundLine],
     [kind |-> "timeout", out |-> EmptyText, err |-> EmptyText]}

\* run_benchmark / run_comparison up to the first trial, called when the
\* driver is at one of the positions from
StartSweep(from) ==
    /\ pc \in from
    /\ \E ids \in ToolLists, thrs \in ThreadLists, n \in 1..MaxRuns,
          verbose \in BOOLEAN,
          po \in [{x \in Registered : HasVersionCmd[x]} -> SweepProbes] :
        LET available ==
                IF prog = "benchmark"
                THEN Filter(ids, {x \in Registered \cup {UnknownTool} :
                                        CheckToolAvailable(x)})
                ELSE Filter(<<"GCC", "Clang">>, binaries)
            unavailable == Range(ids) \ Range(available)
            pr == IF prog = "benchmark" THEN ProbeAll(available, po) ELSE <<>>
        IN  /\ prog = "compiler" => ids = <<"fqc">> /\ verbose
            /\ Explored(Len(available), Len(thrs), n)
            /\ Len(available) * Len(thrs) * n > 1 =>
                    verbose /\ \A x \in DOMAIN po : po[x] = PlainProbe
            /\ tool_ids' = ids
            /\ tools' = available
            /\ threads_list' = thrs
            /\ runs' = n
            /\ unavailable_shown' =
                    IF prog = "benchmark" /\ verbose THEN unavailable ELSE {}
            /\ probes' = pr
            /\ versions' = Probed(versions, pr)
    /\ ti' = 1 /\ ki' = 1 /\ ri' = 0
    /\ trials' = 0
    /\ best_compress' = <<>>
    /\ best_decompress' = <<>>
    /\ pair_log' = <<>>
    /\ stored' = <<>>
    /\ suite' = IF prog = "benchmark" THEN <<>> ELSE suite
    /\ IF prog = "compiler"
       THEN /\ wd' = EmptyDir
            /\ wd_live' = TRUE
            /\ UNCHANGED <<tmp, tmp_live>>
       ELSE UNCHANGED dirs
    /\ pc' = "loop"
    /\ UNCHANGED <<env, rep, caller, t, procs, ret>>

\* the first sweep of a driver object
RunSweep == StartSweep({"idle"})

\* the sweep method called again on the object whose sweep has returned
RunAgain ==
    /\ Len(suite) <= MaxStored
    /\ StartSweep({"done"})

\* the sweep calls the trial runner for the next run of the current pair
CallTrial ==
    /\ pc = "loop"
    /\ ti <= Len(tools)
    /\ \E zcat_ok \in BOOLEAN :
         BeginTrial("sweep", tools[ti], threads_list[ki],
                    prog = "benchmark", TRUE, zcat_ok)
    /\ pair_log' = IF ri = 0 THEN <<>> ELSE pair_log
    /\ stored' = IF ri = 0 THEN <<>> ELSE stored
    /\ trials' = trials + 1
    /\ UNCHANGED <<env, rep, ret, tool_ids, tools, threads_list, runs, ti, ki, ri,
                   best_compress, best_decompress, suite, unavailable_shown,
                   versions, probes>>

\* the selection with "<=" in place of "<"
KeepIfNotWorse(best, r) ==
    IF best = <<>> \/ r.elapsed_seconds <= best[1].elapsed_seconds
    THEN <<r>> ELSE best

\* "if best is None or r.elapsed_seconds < best.elapsed_seconds: best = r"
KeepIfBetter(best, r) ==
    IF best = <<>> \/ r.elapsed_seconds < best[1].elapsed_seconds
    THEN <<r>> ELSE best

RECURSIVE BestOf(_, _, _)
\* the loop over the results of one trial, for the results that go to the
\* compress slot (c = TRUE) or to the other slot (c = FALSE)
BestOf(best, results, c) ==
    IF results = <<>> THEN best
    ELSE BestOf(IF (Head(results).operation = "compress") = c
                THEN KeepIfBetter(best, Head(results)) ELSE best,
                Tail(results), c)

\* the best decompress result stored ahead of the best compress result
StoreDecompressFirst(results, bc, bd) == results \o bd \o bc

\* "if best_compress: results.append(best_compress)" and then the same for
\* best_decompress
StoreBest(results, bc, bd) == results \o bc \o bd

\* a loop that makes one run more
ExtraRun(r, n) == r = n

\* "for run in range(runs)": after r finished runs the next is the last
LastRun(r, n) == r + 1 = n

\* the sweep takes the results of a trial; after the last run of the pair
\* it stores the best results and moves to the next pair
SelectBest ==
    /\ pc = "returned"
    /\ caller = "sweep"
    /\ LET bc == BestOf(best_compress, t.results, TRUE)
           bd == BestOf(best_decompress, t.results, FALSE)
           last == LastRun(ri, runs)
       IN  /\ pair_log' = Append(pair_log, t.results)
           /\ IF last
              THEN /\ suite' = StoreBest(suite, bc, bd)
                   /\ stored' = bc \o bd
                   /\ best_compress' = <<>>
                   /\ best_decompress' = <<>>
                   /\ ri' = 0
                   /\ ki' = IF ki = Len(threads_list) THEN 1 ELSE ki + 1
                   /\ ti' = IF ki = Len(threads_list) THEN ti + 1 ELSE ti
              ELSE /\ best_compress' = bc
                   /\ best_decompress' = bd
                   /\ ri' = ri + 1
                   /\ UNCHANGED <<suite, stored, ki, ti>>
    /\ pc' = "loop"
    /\ UNCHANGED <<env, rep, caller, t, dirs, procs, ret, tool_ids, tools,
                   threads_list, runs, unavailable_shown, versions, probes,
                   trials>>

\* the loops are over: run_comparison removes its directory, the sweep returns
FinishSweep ==
    /\ pc = "loop"
    /\ ti > Len(tools)
    /\ pc' = "done"
    /\ IF prog = "compiler"
       THEN /\ wd' = EmptyDir
            /\ wd_live' = FALSE
            /\ UNCHANGED <<tmp, tmp_live>>
       ELSE UNCHANGED dirs
    /\ UNCHANGED <<env, rep, caller, t, procs, ret, sweep>>

\* benchmark_binary raised: run_comparison removes its directory and the
\* exception leaves it
AbortSweep ==
    /\ pc = "raised"
    /\ caller = "sweep"
    /\ pc' = "aborted"
    /\ wd' = EmptyDir
    /\ wd_live' = FALSE
    /\ UNCHANGED <<env, rep, caller, t, tmp, tmp_live, procs, ret, sweep>>

(* ------------------------ inputs of the sweeps ------------------------- *)
SweepSrcSizes == {4}
SweepCSizes == {2}
SweepDSizes == {3, 4}
SweepKinds == {"ok", "nonzero", "timeout"}
SweepDiagLens == {3}

Init ==
    /\ prog \in {"benchmark", "compiler"}
    /\ input_gz \in BOOLEAN
    /\ prog = "benchmark" => ~input_gz
    /\ src_size \in SweepSrcSizes
    /\ binaries \in (IF prog = "benchmark" THEN {Registered, {"fqc"}, {}}
                     ELSE {Compilers, {"Clang"}, {}})
    /\ time_shim \in BOOLEAN
    /\ prog = "benchmark" => time_shim
    /\ wd_live = FALSE
    /\ tool_names = ToolName
    /\ fqc_binary = FallbackBinary
    /\ suite = <<>>
    /\ data = <<>>
    /\ InitCommon

\* in a sweep over a grid the processes explored end after one second, with
\* status 0 and an output file or with another status
GridSweep == Len(tools) > 1 /\ Len(threads_list) > 1
GridExit(kind, e, wrote, execs) ==
    /\ kind \in {"ok", "nonzero"}
    /\ e = 1
    /\ execs
    /\ kind = "ok" => wrote # NoFile

SweepCompressExit ==
    \E kind \in SweepKinds, e \in ElapsedVals, wrote \in {NoFile} \cup SweepCSizes,
       execs \in BOOLEAN, diag \in {DiagText(n) : n \in {0} \cup SweepDiagLens},
       rss_kb \in {0} \cup RssVals :
        /\ kind = "nonzero" /\ Outcome(prog, time_shim, kind) = kind =>
                diag # EmptyText
        /\ kind # "ok" => wrote = NoFile
        /\ GridSweep => GridExit(kind, e, wrote, execs)
        /\ CompressExit(kind, e, wrote, execs, diag, rss_kb)

SweepDecompressExit ==
    \E kind \in SweepKinds, e \in ElapsedVals, wrote \in {NoFile} \cup SweepDSizes,
       execs \in BOOLEAN, diag \in {DiagText(n) : n \in {0} \cup SweepDiagLens},
       rss_kb \in {0} \cup RssVals :
        /\ kind = "nonzero" /\ Outcome(prog, time_shim, kind) = kind =>
                diag # EmptyText
        /\ kind # "ok" => wrote = NoFile
        /\ GridSweep => GridExit(kind, e, wrote, execs)
        /\ DecompressExit(kind, e, wrote, execs, diag, rss_kb)

Next ==
    \/ RunSweep
    \/ CallTrial
    \/ SweepCompressExit
    \/ SweepDecompressExit
    \/ SelectBest
    \/ FinishSweep
    \/ AbortSweep
    \/ OrphanExit

Spec == Init /\ [][Next]_vars

\* run_benchmark alone, its processes ending after one second or on the
\* timeout.  The driver is one thread that runs on: a loop that can call the
\* trial runner does, an executor call returns (at the latest on its
\* timeout), a returned trial is taken into account, a finished loop is left
InitLive == Init /\ prog = "benchmark"

LiveCompressExit ==
    \E kind \in SweepKinds, wrote \in {NoFile} \cup SweepCSizes,
       diag \in {DiagText(n) : n \in {0} \cup SweepDiagLens},
       rss_kb \in {0} \cup RssVals :
        /\ kind = "nonzero" => diag # EmptyText
        /\ kind # "ok" => wrote = NoFile
        /\ CompressExit(kind, 1, wrote, TRUE, diag, rss_kb)

LiveDecompressExit ==
    \E kind \in SweepKinds, wrote \in {NoFile} \cup SweepDSizes,
       diag \in {DiagText(n) : n \in {0} \cup SweepDiagLens},
       rss_kb \in {0} \cup RssVals :
        /\ kind = "nonzero" => diag # EmptyText
        /\ kind # "ok" => wrote = NoFile
        /\ DecompressExit(kind, 1, wrote, TRUE, diag, rss_kb)

NextLive ==
    \/ RunSweep
    \/ CallTrial
    \/ LiveCompressExit
    \/ LiveDecompressExit
    \/ SelectBest
    \/ FinishSweep

SpecLive ==
    /\ InitLive
    /\ [][NextLive]_vars
    /\ WF_vars(CallTrial)
    /\ WF_vars(LiveCompressExit)
    /\ WF_vars(LiveDecompressExit)
    /\ WF_vars(SelectBest)
    /\ WF_vars(FinishSweep)

(* ------------------------- sweeps called again ------------------------- *)
\* run_comparison on an uncompressed input, called any number of times on
\* one CompilerBenchmark object
InitAgain == Init /\ prog = "compiler" /\ ~input_gz /\ time_shim

NextAgain ==
    \/ RunSweep
    \/ RunAgain
    \/ CallTrial
    \/ LiveCompressExit
    \/ LiveDecompressExit
    \/ SelectBest
    \/ FinishSweep

SpecAgain == InitAgain /\ [][NextAgain]_vars

(* ------------------ command construction alone ---------------------- *)
InitCommand ==
    /\ prog = "benchmark"
    /\ input_gz = FALSE
    /\ src_size \in SweepSrcSizes
    /\ binaries = Registered
    /\ time_shim = TRUE
    /\ wd_live = FALSE
    /\ tool_names = ToolName
    /\ fqc_binary \in FqcBinaries
    /\ suite = <<>>
    /\ data = <<>>
    /\ InitCommon

NextCommand == BuildCommands

SpecCommand == InitCommand /\ [][NextCommand]_vars

(* ------------------------------ reports ------------------------------- *)
\* the names that occur, in the order of Python's str comparison
NameOrder ==
    <<"Clang", "GCC", "GNU gzip", "clang", "fq-compressor", "fqc", "gcc",
      "gzip">>
NameLess(a, b) == Index(NameOrder, a) < Index(NameOrder, b)

\* the order of the tuples (name, threads)
KeyLeq(a, b) ==
    NameLess(a.name, b.name) \/ (a.name = b.name /\ a.threads <= b.threads)

RECURSIVE InsertSorted(_, _)
InsertSorted(x, l) ==
    IF l = <<>> THEN <<x>>
    ELSE IF KeyLeq(Head(l), x) THEN <<Head(l)>> \o InsertSorted(x, Tail(l))
    ELSE <<x>> \o l

RECURSIVE Sorted(_)
\* sorted(l, key=lambda x: (x.name, x.threads)), a stable sort
Sorted(l) ==
    IF l = <<>> THEN <<>>
    ELSE InsertSorted(l[Len(l)], Sorted(SubSeq(l, 1, Len(l) - 1)))

RECURSIVE Distinct(_)
\* the keys of a dict filled in the order of l
Distinct(l) ==
    IF l = <<>> THEN <<>>
    ELSE LET d == Distinct(SubSeq(l, 1, Len(l) - 1))
         IN  IF l[Len(l)] \in Range(d) THEN d ELSE Append(d, l[Len(l)])

\* the successful results of one operation
SuccessOf(results, op) ==
    SelectSeq(results, LAMBDA r : r.operation = op /\ r.success)

\* (r.tool, r.threads) of each result
Keys(results) ==
    [i \in DOMAIN results |->
        [name |-> results[i].tool, threads |-> results[i].threads]]

\* a > b for two throughputs in MB/s
Faster(a, b) == a.num * b.den > b.num * a.den

\* max(l, key=lambda x: x.speed_mb_s): the first of the fastest
FirstFastest(l) ==
    l[CHOOSE i \in DOMAIN l :
        /\ \A j \in DOMAIN l : ~Faster(speed_mb_s(l[j]), speed_mb_s(l[i]))
        /\ \A j \in 1..(i - 1) : Faster(speed_mb_s(l[i]), speed_mb_s(l[j]))]

Written(by, rows, more_rows, speedups, stats) ==
    [by |-> by, status |-> "written", error |-> "", rows |-> rows,
     more_rows |-> more_rows, speedups |-> speedups, stats |-> stats,
     winner |-> <<>>]
Failed(by, error, stats) ==
    [by |-> by, status |-> "error", error |-> error, rows |-> <<>>,
     more_rows |-> <<>>, speedups |-> <<>>, stats |-> stats, winner |-> <<>>]
Skipped(by) ==
    [by |-> by, status |-> "skipped", error |-> "", rows |-> <<>>,
     more_rows |-> <<>>, speedups |-> <<>>, stats |-> <<>>, winner |-> <<>>]

\* BenchmarkRunner.generate_report: one row per (tool id, threads) key with a
\* successful compress result, the keys sorted, the row showing tool.name
RunnerReport(results, names) ==
    LET keys == Sorted(Distinct(Keys(SuccessOf(results, "compress"))))
    IN  Written("BenchmarkRunner.generate_report",
                [i \in DOMAIN keys |->
                    [name |-> names[keys[i].name],
                     threads |-> keys[i].threads]],
                <<>>, <<>>, <<>>)

\* CompilerBenchmark.generate_report: a table per operation and the
\* comparison of the fastest compress results of GCC and Clang
CompilerReport(results) ==
    LET by == "CompilerBenchmark.generate_report"
        compress_results == SuccessOf(results, "compress")
        gcc_compress == SelectSeq(compress_results, LAMBDA r : r.tool = "GCC")
        clang_compress ==
            SelectSeq(compress_results, LAMBDA r : r.tool = "Clang")
        compare == gcc_compress # <<>> /\ clang_compress # <<>>
        gcc_best == speed_mb_s(FirstFastest(gcc_compress))
        clang_best == speed_mb_s(FirstFastest(clang_compress))
        diff == IF Faster(gcc_best, clang_best)
                THEN [numer |-> gcc_best, denom |-> clang_best]
                ELSE [numer |-> clang_best, denom |-> gcc_best]
    IN  IF compare /\ IsZero(diff.denom)
        THEN Failed(by, "ZeroDivisionError", <<>>)
        ELSE Written(by, Sorted(Keys(compress_results)),
                     Sorted(Keys(SuccessOf(results, "decompress"))),
                     IF compare THEN <<diff>> ELSE <<>>, <<>>)

RECURSIVE RowsByCompiler(_, _)
\* "for compiler in sorted(...keys()): for i in range(len(data['threads']))"
RowsByCompiler(compilers, keys) ==
    IF compilers = <<>> THEN <<>>
    ELSE SelectSeq(keys, LAMBDA k : k.name = Head(compilers).name)
            \o RowsByCompiler(Tail(compilers), keys)

\* BenchmarkVisualizer.generate_markdown_report / generate_html_report on
\* the results of a JSON file: _prepare_data, the two tables, the summary
VisualizerReport(by, results) ==
    LET ok == SelectSeq(results, LAMBDA r : r.success)
        compilers ==
            Sorted(Distinct([i \in DOMAIN ok |->
                                [name |-> ok[i].tool, threads |-> 0]]))
        compress == SuccessOf(results, "compress")
        prepare_fails ==
            \E i \in DOMAIN ok :
                \/ ok[i].elapsed_seconds = 0
                \/ ok[i].operation = "compress" /\ ok[i].input_size = 0
        gcc == SelectSeq(compress, LAMBDA r : r.tool = "GCC")
        clang == SelectSeq(compress, LAMBDA r : r.tool = "Clang")
        summary_fails ==
            Len(compilers) >= 2 /\ Len(gcc) > 1 /\ clang = <<>>
    IN  IF prepare_fails THEN Failed(by, "ZeroDivisionError", <<>>)
        ELSE IF summary_fails THEN Failed(by, "IndexError", <<>>)
        ELSE Written(by, RowsByCompiler(compilers, Keys(compress)),
                     RowsByCompiler(compilers,
                                    Keys(SuccessOf(results, "decompress"))),
                     <<>>, <<>>)

(* ---------------------------- statistics ------------------------------ *)
RECURSIVE Sum(_)
Sum(xs) == IF xs = <<>> THEN 0 ELSE Head(xs) + Sum(Tail(xs))

SumSq(xs) == Sum([i \in DOMAIN xs |-> xs[i] * xs[i]])

\* the least / greatest element of a non-empty list
Min(xs) == CHOOSE x \in Range(xs) : \A y \in Range(xs) : x <= y
Max(xs) == CHOOSE x \in Range(xs) : \A y \in Range(xs) : x >= y

\* statistics.mean: the fraction num / den
Mean(xs) == [num |-> Sum(xs), den |-> Len(xs)]

\* statistics.stdev of two or more values, given by its square sq_num / sq_den
Stdev(xs) ==
    [sq_num |-> Len(xs) * SumSq(xs) - Sum(xs) * Sum(xs),
     sq_den |-> Len(xs) * (Len(xs) - 1)]
ZeroDev == [sq_num |-> 0, sq_den |-> 1]

\* the deviation taken about 0 in place of the mean, for any number of values
SpreadAboutZero(xs) == [sq_num |-> SumSq(xs), sq_den |-> Len(xs)]

\* "stdev(xs) if len(xs) > 1 else 0"
StdevOrZero(xs) == IF Len(xs) > 1 THEN Stdev(xs) ELSE ZeroDev

\* [r[f] for r in l]
Column(l, f) == [i \in DOMAIN l |-> l[i][f]]

\* the samples of one compiler and test type
Group(results, compiler, test_type) ==
    SelectSeq(results, LAMBDA r : r.compiler = compiler /\ r.test = test_type)

\* calculate_statistics: <<>> for None, <<stats>> for the dict
CalculateStatistics(results, compiler, test_type) ==
    LET filtered == Group(results, compiler, test_type)
        throughputs == Column(filtered, "throughput_mbps")
        elapsed_times == Column(filtered, "elapsed_seconds")
        ratios == Column(filtered, "compression_ratio")
    IN  IF filtered = <<>> THEN <<>>
        ELSE <<[count |-> Len(filtered),
                throughput_mean |-> Mean(throughputs),
                throughput_stdev |-> StdevOrZero(throughputs),
                throughput_min |-> Min(throughputs),
                throughput_max |-> Max(throughputs),
                elapsed_mean |-> Mean(elapsed_times),
                elapsed_stdev |-> StdevOrZero(elapsed_times),
                compression_ratio |->
                    IF test_type = "compression"
                    THEN <<[mean |-> Mean(ratios),
                            stdev |-> StdevOrZero(ratios)]>>
                    ELSE <<>>]>>

TestTypes == <<"compression", "decompression">>

\* a / b for two means
Quotient(a, b) == [numer |-> a, denom |-> b]

\* main of generate_benchmark_report.py on the loaded results
ReportMain(results) ==
    LET by == "generate_benchmark_report.main"
        compilers == {results[i].compiler : i \in DOMAIN results}
        stats == [c \in compilers |->
                    [compression |->
                        CalculateStatistics(results, c, "compression"),
                     decompression |->
                        CalculateStatistics(results, c, "decompression")]]
        \* "if gcc_comp and clang_comp: clang mean / gcc mean", per test type
        compared ==
            SelectSeq(TestTypes,
                      LAMBDA x : /\ Cardinality(compilers) = 2
                                 /\ stats["gcc"][x] # <<>>
                                 /\ stats["clang"][x] # <<>>)
        speedups ==
            [i \in DOMAIN compared |->
                Quotient(stats["clang"][compared[i]][1].throughput_mean,
                         stats["gcc"][compared[i]][1].throughput_mean)]
    IN  IF results = <<>> THEN Skipped(by)
        \* "stats['gcc']", "stats['clang']" when there are two compilers
        ELSE IF Cardinality(compilers) = 2 /\ compilers # {"gcc", "clang"}
        THEN Failed(by, "KeyError", stats)
        ELSE IF \E i \in DOMAIN speedups : speedups[i].denom.num = 0
        THEN Failed(by, "ZeroDivisionError", stats)
        ELSE Written(by, <<>>, <<>>, speedups, stats)

\* a > b for two means
Greater(a, b) == a.num * b.den > b.num * a.den

\* main of generate_benchmark_charts.py on the loaded results
ChartsMain(results) ==
    LET by == "generate_benchmark_charts.main"
        compilers == {results[i].compiler : i \in DOMAIN results}
        throughputs(c, x) == Column(Group(results, c, x), "throughput_mbps")
        \* mean() of an empty list raises StatisticsError
        no_mean ==
            \E c \in compilers, i \in DOMAIN TestTypes :
                throughputs(c, TestTypes[i]) = <<>>
        gcc_comp == Mean(throughputs("gcc", "compression"))
        clang_comp == Mean(throughputs("clang", "compression"))
        \* "'clang' if clang_comp > gcc_comp else 'gcc'"
        winner == IF Greater(clang_comp, gcc_comp) THEN "clang" ELSE "gcc"
        speedup ==
            IF Greater(clang_comp, gcc_comp)
            THEN Quotient(clang_comp, gcc_comp)
            ELSE Quotient(gcc_comp, clang_comp)
    IN  IF results = <<>> THEN Skipped(by)
        ELSE IF no_mean THEN Failed(by, "StatisticsError", <<>>)
        ELSE IF Cardinality(compilers) # 2
        THEN Written(by, <<>>, <<>>, <<>>, <<>>)
        \* "compression_data['gcc']", "compression_data['clang']"
        ELSE IF compilers # {"gcc", "clang"}
        THEN Failed(by, "KeyError", <<>>)
        ELSE IF speedup.denom.num = 0
        THEN Failed(by, "ZeroDivisionError", <<>>)
        ELSE [Written(by, <<>>, <<>>, <<speedup>>, <<>>)
                EXCEPT !.winner = <<winner>>]

(* ------------------------------- JSON --------------------------------- *)
\* texts are sequences of symbols; an identifier (a tool id, an operation, a
\* key) is one symbol
Quote == "\""
Backslash == "\\"
NewLine == "\n"

RECURSIVE Escape(_)
\* json.dump of the characters of a str
Escape(s) ==
    IF s = <<>> THEN <<>>
    ELSE (CASE Head(s) = Quote -> <<Backslash, Quote>>
            [] Head(s) = Backslash -> <<Backslash, Backslash>>
            [] Head(s) = NewLine -> <<Backslash, "n">>
            [] OTHER -> <<Head(s)>>) \o Escape(Tail(s))

JsonString(s) == <<Quote>> \o Escape(s) \o <<Quote>>
JsonNull == <<"n", "u", "l", "l">>
JsonTrue == <<"t", "r", "u", "e">>
JsonFalse == <<"f", "a", "l", "s", "e">>
JsonBool(b) == IF b THEN JsonTrue ELSE JsonFalse
JsonInt(n) == DecimalText(n)
\* a float of whole value, as repr() gives it
JsonFloat(q) == DecimalText(q.num \div (q.scale * q.den)) \o <<".", "0">>
\* an Optional[str]: None is written as the string "None"
JsonNoneAsString(e) == JsonString(IF e.none THEN <<"None">> ELSE e.s)

\* an Optional[str]: None is written as null
JsonOptional(e) == IF e.none THEN JsonNull ELSE JsonString(e.s)

\* the key of the first field of the result dataclass of driver p
ToolKey(p) == IF p = "compiler" THEN "compiler" ELSE "tool"

\* json.dump(asdict(r)): the members in the order of the dataclass fields
JsonResult(p, r) ==
    <<[key |-> ToolKey(p), text |-> JsonString(<<r.tool>>)],
      [key |-> "operation", text |-> JsonString(<<r.operation>>)],
      [key |-> "input_size", text |-> JsonInt(r.input_size)],
      [key |-> "output_size", text |-> JsonInt(r.output_size)],
      [key |-> "elapsed_seconds", text |-> JsonInt(r.elapsed_seconds)],
      [key |-> "threads", text |-> JsonInt(r.threads)],
      [key |-> "success", text |-> JsonBool(r.success)],
      [key |-> "error", text |-> JsonOptional(r.error)]>>
        \o (IF p = "compiler"
            THEN <<[key |-> "peak_memory_mb",
                    text |-> JsonFloat(r.peak_memory_mb)]>>
            ELSE <<>>)

\* "results": [asdict(r) for r in suite.results]
JsonResults(p, results) ==
    [i \in DOMAIN results |-> JsonResult(p, results[i])]

RECURSIVE ParseDecimal(_)
\* json.load of a number without fraction
ParseDecimal(s) ==
    IF s = <<>> THEN 0
    ELSE ParseDecimal(SubSeq(s, 1, Len(s) - 1)) * 10
            + (Index(DigitChars, s[Len(s)]) - 1)

RECURSIVE ScanString(_)
\* json.load of a string from the character after its opening quote: the
\* characters up to the first quote that is not escaped
ScanString(s) ==
    IF s = <<>> \/ Head(s) = Quote THEN <<>>
    ELSE IF Head(s) = Backslash /\ Len(s) >= 2
    THEN <<IF s[2] = "n" THEN NewLine ELSE s[2]>> \o ScanString(Tail(Tail(s)))
    ELSE <<Head(s)>> \o ScanString(Tail(s))

ParseString(text) == ScanString(Tail(text))
ParseBool(text) == text = JsonTrue
ParseOptional(text) ==
    IF text = JsonNull THEN NoneVal ELSE Text(ParseString(text))
\* the whole part of a number
ParseFloat(text) ==
    [num |-> ParseDecimal(SubSeq(text, 1, Index(text, ".") - 1)),
     scale |-> 1, den |-> 1]

\* obj[key] of a parsed object
Member(obj, key) == obj[CHOOSE i \in DOMAIN obj : obj[i].key = key].text

\* the result read back from an object of the "results" array
ParseResult(p, obj) ==
    Result(ParseString(Member(obj, ToolKey(p)))[1],
           ParseString(Member(obj, "operation"))[1],
           ParseDecimal(Member(obj, "input_size")),
           ParseDecimal(Member(obj, "output_size")),
           ParseDecimal(Member(obj, "elapsed_seconds")),
           ParseDecimal(Member(obj, "threads")),
           ParseBool(Member(obj, "success")),
           ParseOptional(Member(obj, "error")),
           IF p = "compiler" THEN ParseFloat(Member(obj, "peak_memory_mb"))
           ELSE Zero)

\* export_json of the suite of the latest sweep
ExportJson ==
    /\ prog \in {"benchmark", "compiler"}
    /\ json_file' = [status |-> "written",
                     results |-> JsonResults(prog, suite)]
    /\ UNCHANGED <<env, built, data, report, pc, caller, t, dirs, procs, ret, sweep>>

\* "data = json.load(f)" on the file export_json has written
LoadJson ==
    /\ prog \in {"benchmark", "compiler"}
    /\ json_file.status = "written"
    /\ data' = [i \in DOMAIN json_file.results |->
                    ParseResult(prog, json_file.results[i])]
    /\ json_file' = [json_file EXCEPT !.status = "loaded"]
    /\ UNCHANGED <<env, built, report, pc, caller, t, dirs, procs, ret, sweep>>

(* ------------------------ the report programs ------------------------- *)
ReportProgs ==
    {"benchmark", "compiler", "visualizer", "report_script", "charts_script"}

GenerateReport ==
    /\ prog = "benchmark"
    /\ report' = RunnerReport(suite, tool_names)
    /\ UNCHANGED <<env, built, data, json_file, pc, caller, t, dirs, procs, ret, sweep>>

CompilerGenerateReport ==
    /\ prog = "compiler"
    /\ report' = CompilerReport(suite)
    /\ UNCHANGED <<env, built, data, json_file, pc, caller, t, dirs, procs, ret, sweep>>

VisualizeMarkdown ==
    /\ prog = "visualizer"
    /\ report' = VisualizerReport("generate_markdown_report", data)
    /\ UNCHANGED <<env, built, data, json_file, pc, caller, t, dirs, procs, ret, sweep>>

VisualizeHtml ==
    /\ prog = "visualizer"
    /\ report' = VisualizerReport("generate_html_report", data)
    /\ UNCHANGED <<env, built, data, json_file, pc, caller, t, dirs, procs, ret, sweep>>

ReportScript ==
    /\ prog = "report_script"
    /\ report' = ReportMain(data)
    /\ UNCHANGED <<env, built, data, json_file, pc, caller, t, dirs, procs, ret, sweep>>

ChartsScript ==
    /\ prog = "charts_script"
    /\ report' = ChartsMain(data)
    /\ UNCHANGED <<env, built, data, json_file, pc, caller, t, dirs, procs, ret, sweep>>

(* ----------------------- inputs of the reports ------------------------ *)
ReportSizes == {0, 4}
ReportThreads == {1, 4}
ReportThroughputs == {0, 2, 4}
ReportRates == {4}

\* a line a failing tool printed on its stderr
StderrLine == <<"n", "o", " ", Quote, "a", Backslash, "x", Quote, NewLine>>

\* results as the drivers record them, for the tools in names
ReportResults(names) ==
    {Result(x, op, isize, IF ok THEN 2 ELSE 0, 1, thr, ok,
            IF ok THEN NoneVal ELSE Text(StderrLine), Zero) :
        x \in names, op \in {"compress", "decompress"}, isize \in ReportSizes,
        thr \in ReportThreads, ok \in BOOLEAN}

\* the compilers of a results file
CompilerPairs == {{"gcc", "clang"}, {"gcc", "icx"}}

\* the entries of 'results' the two scripts read
Samples(names) ==
    [compiler : names, test : {"compression"},
     throughput_mbps : ReportThroughputs, elapsed_seconds : {1},
     compression_ratio : {2}]
        \cup [compiler : names, test : {"decompression"},
              throughput_mbps : ReportRates, elapsed_seconds : {1},
              compression_ratio : {2}]

SeqsUpTo(S, n) == UNION {[1..k -> S] : k \in 0..n}

InitReport ==
    /\ prog \in ReportProgs
    /\ input_gz = FALSE
    /\ src_size \in SweepSrcSizes
    /\ binaries = {}
    /\ time_shim = TRUE
    /\ wd_live = FALSE
    /\ tool_names \in (IF prog = "benchmark" THEN NameConfigs ELSE {ToolName})
    /\ fqc_binary = FallbackBinary
    /\ suite \in (CASE prog = "benchmark" ->
                        SeqsUpTo(ReportResults(Registered), MaxRows)
                    [] prog = "compiler" ->
                        SeqsUpTo(ReportResults(Compilers), MaxRows)
                    [] OTHER -> {<<>>})
    /\ data \in (CASE prog = "visualizer" ->
                        SeqsUpTo(ReportResults(Compilers), MaxRows)
                   [] prog \in {"report_script", "charts_script"} ->
                        UNION {SeqsUpTo(Samples(names), MaxSamples) :
                                    names \in CompilerPairs}
                   [] OTHER -> {<<>>})
    /\ InitCommon

NextReport ==
    \/ GenerateReport
    \/ CompilerGenerateReport
    \/ VisualizeMarkdown
    \/ VisualizeHtml
    \/ ReportScript
    \/ ChartsScript
    \/ ExportJson
    \/ LoadJson

SpecReport == InitReport /\ [][NextReport]_vars

(* ------------------------ properties: helpers -------------------------- *)
NonEmptyError(r) == ~r.error.none /\ r.error.s # EmptyText

DecompressSpawned == \E i \in DOMAIN spawns : spawns[i] = "decompress"

RECURSIVE OpResults(_, _)
\* the results of the trials of log, in order, that are compress results
\* (c = TRUE) or not (c = FALSE)
OpResults(log, c) ==
    IF log = <<>> THEN <<>>
    ELSE SelectSeq(Head(log), LAMBDA r : (r.operation = "compress") = c)
            \o OpResults(Tail(log), c)

\* the earliest element of s with the least elapsed time, <<>> when s is empty
FirstMin(s) ==
    IF s = <<>> THEN <<>>
    ELSE LET i == CHOOSE i \in DOMAIN s :
                    /\ \A j \in DOMAIN s : s[i].elapsed_seconds <= s[j].elapsed_seconds
                    /\ \A j \in 1..(i - 1) : s[j].elapsed_seconds > s[i].elapsed_seconds
         IN  <<s[i]>>

\* the last run of the current pair has been taken into account
PairFinished == runs > 0 /\ Len(pair_log) = runs

\* the place of the (tool, thread count) pair of r in the traversal of the
\* latest sweep
PairRank(r) ==
    (Index(tools, r.tool) - 1) * Len(threads_list)
        + Index(threads_list, r.threads)

\* the number of processes of kind x the current trial has spawned
SpawnCount(x) == Cardinality({i \in DOMAIN spawns : spawns[i] = x})

\* the number of version probes of tool x in the latest sweep
ProbeCount(x) == Cardinality({j \in DOMAIN probes : probes[j].tool = x})

\* the probe p gave no version: no probe command, a process that did not
\* exit with status 0, or nothing printed
ProbeFailed(p) ==
    \/ ~p.has_cmd
    \/ p.kind # "ok"
    \/ Strip(p.out) = EmptyText /\ Strip(p.err) = EmptyText

\* the rows are in ascending order of (name, threads)
RowsSorted(rows) ==
    \A i \in 1..(Len(rows) - 1) :
        \/ NameLess(rows[i].name, rows[i + 1].name)
        \/ /\ rows[i].name = rows[i + 1].name
           /\ rows[i].threads <= rows[i + 1].threads

\* the number of samples of data for compiler c and test type x
GroupSize(c, x) ==
    Cardinality({i \in DOMAIN data : data[i].compiler = c /\ data[i].test = x})

(* ------------------------------ claims -------------------------------- *)

\* C1: every result in the suite's result sequence has success = true (a
\* pair whose trials all failed contributes no result for that operation).
C1_OnlySuccessfulStored ==
    \A i \in DOMAIN suite : suite[i].success

\* C2: after the runs of a pair, the result retained for each operation is
\* the one with the least elapsed time among that operation's results of
\* those trials, the earliest such trial when several share the least time.
C2_BestIsFirstMinimum ==
    PairFinished =>
        stored = FirstMin(OpResults(pair_log, TRUE))
                    \o FirstMin(OpResults(pair_log, FALSE))

\* C2 witness: two trials of a pair gave different compress results with the
\* same elapsed time, and the first of them was retained.
C2_Witness ==
    /\ PairFinished
    /\ Len(OpResults(pair_log, TRUE)) >= 2
    /\ LET s == OpResults(pair_log, TRUE)
       IN  /\ s[1].elapsed_seconds = s[2].elapsed_seconds
           /\ s[1] # s[2]
           /\ stored # <<>>
           /\ stored[1] = s[1]

\* C3: a successful result of a trial has ratio >= 0 and throughput >= 0; a
\* failed result has ratio exactly 0 and throughput exactly 0.
C3_MetricsZeroOnFailure ==
    \A i \in DOMAIN t.results :
        LET r == t.results[i]
        IN  /\ r.success => NonNegative(ratio(r)) /\ NonNegative(speed_mb_s(r))
            /\ ~r.success => IsZero(ratio(r)) /\ IsZero(speed_mb_s(r))

\* C4: every result of a trial with success = false has output_size = 0,
\* whatever file is on disk.
C4_FailedOutputSizeZero ==
    /\ \A i \in DOMAIN t.results :
            ~t.results[i].success => t.results[i].output_size = 0
    /\ \A i \in DOMAIN ret.results :
            ~ret.results[i].success => ret.results[i].output_size = 0

\* C4 witness: the compress step failed and the runner returned while a
\* compressed file of positive size lies in the caller's directory.
C4_Witness ==
    /\ pc = "returned"
    /\ Len(t.results) = 1
    /\ ~t.results[1].success
    /\ ~t.own
    /\ t.artifact
    /\ FileSize(wd, CompressedPath(prog, t.tool)) > 0

\* C5: within a trial the decompress process is spawned, and a decompress
\* result recorded, exactly when the compress step of the trial succeeded
\* and the compressed artifact existed; it is never spawned before the
\* compress process, and never after a failed compression.
C5_DecompressIffCompressed ==
    /\ \A i \in DOMAIN spawns :
            spawns[i] = "decompress" =>
                \E j \in 1..(i - 1) : spawns[j] = "compress"
    /\ t.results = <<>> => ~DecompressSpawned
    /\ t.results # <<>> =>
            /\ t.results[1].operation = "compress"
            /\ DecompressSpawned <=> (t.results[1].success /\ t.artifact)
    /\ pc \notin {"compress", "decompress"} =>
            (DecompressSpawned <=>
                \E i \in DOMAIN t.results : t.results[i].operation = "decompress")

\* C5 witness: the compression failed, a compressed file is on disk, the
\* runner returned and no decompress process was spawned.
C5_Witness ==
    /\ pc = "returned"
    /\ Len(t.results) = 1
    /\ ~t.results[1].success
    /\ t.artifact
    /\ spawns = <<"compress">>

\* C6: the trial runner returns 0, 1 or 2 results: none, and no process
\* spawned, when the tool id is not registered; one compress result when the
\* compression failed; with two results the first is the compress result and
\* the second the decompress result.
C6_ResultListShape ==
    /\ prog = "benchmark" /\ t.tool \notin Registered =>
            t.results = <<>> /\ spawns = <<>>
    /\ pc = "returned" =>
            /\ Len(t.results) \in 0..2
            /\ Len(t.results) >= 1 => t.results[1].operation = "compress"
            /\ Len(t.results) >= 1 /\ ~t.results[1].success => Len(t.results) = 1
            /\ Len(t.results) = 2 => t.results[2].operation = "decompress"
    /\ ret.status = "returned" =>
            /\ Len(ret.results) \in 0..2
            /\ \A i \in DOMAIN ret.results :
                    ret.results[i].operation =
                        (IF i = 1 THEN "compress" ELSE "decompress")

\* C6 witness: benchmark_tool was called with an unregistered tool id and
\* returned the empty list.
C6_Witness ==
    /\ prog = "benchmark"
    /\ pc = "returned"
    /\ t.tool = UnknownTool
    /\ t.results = <<>>

\* C7: for every decompress result of a trial on an input of size S, when
\* the decompressed byte size (0 when there is no decompressed file) differs
\* from S the error field is non-empty, and success and elapsed time are
\* those the executor reported.
C7_SizeMismatchReported ==
    pc = "returned" /\ Len(t.results) = 2 =>
        LET r == t.results[2]
        IN  /\ t.dec_size # t.input_size => NonEmptyError(r)
            /\ r.success = last_run.success
            /\ r.elapsed_seconds = last_run.elapsed

\* C8: when compression succeeds and decompression exits with nonzero
\* status, the trial gives exactly one successful compress result and one
\* failed decompress result with output_size = 0, and a pair whose trials
\* all ended that way stores exactly these two kinds of result.
C8_FailedDecompressRecorded ==
    LET Shape(l) ==
            /\ Len(l) = 2
            /\ l[1].operation = "compress" /\ l[1].success
            /\ l[2].operation = "decompress" /\ ~l[2].success
            /\ l[2].output_size = 0
    IN  /\ /\ pc \in {"returned", "loop", "done"}
           /\ last_run.op = "decompress"
           /\ last_run.kind = "nonzero"
           => Shape(t.results)
        /\ /\ PairFinished
           /\ \A k \in DOMAIN pair_log :
                /\ Len(pair_log[k]) = 2
                /\ pair_log[k][1].success
                /\ ~pair_log[k][2].success
           => Shape(stored)

\* C8 witness: both trials of a pair compressed successfully and failed to
\* decompress, the last with a nonzero exit, and the pair has been stored.
C8_Witness ==
    /\ pc = "loop"
    /\ PairFinished
    /\ runs = 2
    /\ last_run.op = "decompress"
    /\ last_run.kind = "nonzero"
    /\ \A k \in DOMAIN pair_log :
            /\ Len(pair_log[k]) = 2
            /\ pair_log[k][1].success
            /\ ~pair_log[k][2].success
    /\ Len(stored) = 2

\* C9: when a command exceeds its timeout the executor returns success =
\* false, elapsed = the timeout and the error text "Timeout", and the
\* benchmarked process is no longer running when the call returns.
C9_TimeoutTerminates ==
    last_run.kind = "timeout" =>
        /\ ~last_run.success
        /\ last_run.elapsed = Timeout
        /\ last_run.error = TimeoutText
        /\ ~last_run.tool_alive

\* C10: when a command exits with nonzero status the executor returns
\* success = false and as error text the first (at most) 200 characters of
\* what the process printed on its diagnostic stream.
C10_ErrorIsStderrPrefix ==
    last_run.kind = "nonzero" =>
        /\ ~last_run.success
        /\ last_run.error = Prefix(last_run.diag, ErrMax)

\* C11: peak memory is best-effort.  Without /usr/bin/time a command that
\* would itself succeed is still reported with success = true and peak
\* memory 0; with it, the peak memory returned is the reported "Maximum
\* resident set size" in KB divided by 1024.
C11_PeakMemoryBestEffort ==
    prog = "compiler" /\ last_run.op # "none" =>
        /\ ~time_shim /\ last_run.cmd = "ok" =>
                last_run.success /\ IsZero(last_run.peak)
        /\ time_shim /\ last_run.rss_kb > 0 =>
                last_run.peak =
                    [num |-> last_run.rss_kb, scale |-> KiB, den |-> 1]

\* C12: a tool whose binary is not resolvable on the host is not in
\* tools_tested, is in the skipped list the sweep reports, has no result in
\* the suite, no trial (so no process) is started for it, and the sweep
\* does not fail.
C12_UnavailableToolSkipped ==
    prog = "benchmark" /\ pc # "idle" =>
        \A i \in DOMAIN tool_ids :
            tool_ids[i] \notin binaries =>
                /\ tool_ids[i] \notin Range(tools)
                /\ tool_ids[i] \in unavailable_shown
                /\ \A j \in DOMAIN suite : suite[j].tool # tool_ids[i]
                /\ t.tool # tool_ids[i]
                /\ pc \notin {"raised", "aborted"}

\* C13: the result sequence of the suite is in traversal order: tools in
\* the order of the filtered caller list, thread counts in caller order
\* within a tool, the compress result of a pair immediately before its
\* decompress result, and no result of an earlier pair after a result of a
\* later pair.
C13_TraversalOrder ==
    /\ \A i \in DOMAIN suite :
            /\ suite[i].tool \in Range(tools)
            /\ suite[i].threads \in Range(threads_list)
    /\ \A i, j \in DOMAIN suite :
            i < j =>
                /\ PairRank(suite[i]) <= PairRank(suite[j])
                /\ PairRank(suite[i]) = PairRank(suite[j]) =>
                        /\ j = i + 1
                        /\ suite[i].operation = "compress"
                        /\ suite[j].operation = "decompress"

\* C13 witness: a sweep of two tools and the thread counts 4, 1 has returned
\* with a compress and a decompress result for each of the four pairs.
C13_Witness ==
    /\ pc = "done"
    /\ Len(tools) = 2
    /\ threads_list = <<4, 1>>
    /\ Len(suite) = 8
    /\ suite[1].tool # suite[8].tool
    /\ suite[3].threads = 1

\* C14: tools are benchmarked independently; whatever the outcomes of one
\* tool's trials (success, failure, timeout, decompression of the shared
\* input failing), the trials of every other tool are run: when the sweep
\* has ended, no tool of the sweep is left without its trials.
C14_ToolsIndependent ==
    pc \in {"done", "aborted"} =>
        \A i \in DOMAIN tools : i < ti \/ (i = ti /\ pc = "aborted")

\* C15: per-trial failures never raise past the trial runner: whatever the
\* outcome of the compress or decompress process, and in benchmark_binary
\* also when the .gz input fixture cannot be decompressed, benchmark_tool /
\* benchmark_binary return normally.
C15_TrialNeverRaises ==
    /\ pc # "raised"
    /\ ret.status # "raised"

\* C18: in a sweep the version of each available tool is probed exactly
\* once, before any trial of that tool, and a probe that fails (no probe
\* command, nonzero exit, timeout, exception, empty output) leaves the
\* version "unknown".
C18_VersionProbedOnce ==
    prog = "benchmark" /\ pc # "idle" =>
        /\ Len(probes) = Len(tools)
        /\ \A i \in DOMAIN tools : ProbeCount(tools[i]) = 1
        /\ caller = "sweep" => ProbeCount(t.tool) = 1
        /\ \A j \in DOMAIN probes :
                ProbeFailed(probes[j]) =>
                    versions[probes[j].tool] = UnknownText

\* C16: a report is always produced: for any result set (empty, all failed,
\* compression results without decompression results) the generation of
\* the Markdown and HTML reports ends without error and writes the report,
\* with empty tables where there is no successful data.
C16_ReportAlwaysProduced ==
    /\ report.by \in {"BenchmarkRunner.generate_report",
                      "generate_benchmark_report.main",
                      "generate_benchmark_charts.main"} =>
            report.status = "written"
    /\ report.by = "BenchmarkRunner.generate_report"
            /\ SuccessOf(suite, "compress") = <<>> =>
            report.rows = <<>>

\* C17: the result tables of the Markdown and HTML reports list their rows
\* in ascending order of (tool display name, thread count), whatever the
\* order in which the results were appended.
C17_TablesSorted ==
    report.by \in {"BenchmarkRunner.generate_report",
                   "generate_markdown_report", "generate_html_report"} =>
        RowsSorted(report.rows) /\ RowsSorted(report.more_rows)

\* C19: the cross-tool speedup is only computed with a nonzero denominator:
\* with a summary absent or a denominator mean of 0 the comparison is left
\* out, and report generation does not fail with a division error.
C19_SpeedupGuarded ==
    report.by \in {"generate_benchmark_report.main",
                   "generate_benchmark_charts.main",
                   "CompilerBenchmark.generate_report"} =>
        /\ report.error # "ZeroDivisionError"
        /\ \A i \in DOMAIN report.speedups :
                report.speedups[i].denom.num # 0

\* C20: for a (tool, operation) group of exactly one sample every standard
\* deviation of the summary (throughput, elapsed time, and for compression
\* the ratio) is 0; for an empty group the summary is absent.
C20_SingleSampleStdevZero ==
    report.by = "generate_benchmark_report.main" =>
        \A c \in DOMAIN report.stats, i \in DOMAIN TestTypes :
            LET x == TestTypes[i]
                summary == report.stats[c][x]
            IN  /\ GroupSize(c, x) = 0 => summary = <<>>
                /\ GroupSize(c, x) = 1 =>
                        /\ summary # <<>>
                        /\ summary[1].throughput_stdev.sq_num = 0
                        /\ summary[1].elapsed_stdev.sq_num = 0
                        /\ x = "compression" =>
                                /\ summary[1].compression_ratio # <<>>
                                /\ summary[1].compression_ratio[1].stdev.sq_num = 0

\* C20 witness: the report script summarised a compiler with one
\* compression sample of throughput 4 and no decompression sample.
C20_Witness ==
    /\ report.by = "generate_benchmark_report.main"
    /\ "gcc" \in DOMAIN report.stats
    /\ GroupSize("gcc", "compression") = 1
    /\ GroupSize("gcc", "decompression") = 0
    /\ report.stats["gcc"]["compression"] # <<>>
    /\ report.stats["gcc"]["compression"][1].throughput_mean.num = 4
    /\ report.stats["gcc"]["decompression"] = <<>>

\* C21: exporting a suite to JSON and reading the file back gives the same
\* number of results in the same order, each with the same tool, operation,
\* input_size, output_size, elapsed_seconds, threads, success and error
\* (None written as null and read back as None).
C21_JsonRoundTrip ==
    /\ json_file.status # "none" => Len(json_file.results) = Len(suite)
    /\ json_file.status = "loaded" =>
            /\ Len(data) = Len(suite)
            /\ \A i \in DOMAIN suite :
                    /\ data[i].tool = suite[i].tool
                    /\ data[i].operation = suite[i].operation
                    /\ data[i].input_size = suite[i].input_size
                    /\ data[i].output_size = suite[i].output_size
                    /\ data[i].elapsed_seconds = suite[i].elapsed_seconds
                    /\ data[i].threads = suite[i].threads
                    /\ data[i].success = suite[i].success
                    /\ data[i].error = suite[i].error
                    /\ suite[i].error.none =>
                            Member(json_file.results[i], "error") = JsonNull

\* C21 witness: a suite of a successful result (error None) and a failed
\* one whose error text holds a quote, a backslash and a newline was
\* exported and read back.
C21_Witness ==
    /\ json_file.status = "loaded"
    /\ Len(suite) = 2
    /\ suite[1].error.none
    /\ ~suite[2].error.none
    /\ Quote \in Range(suite[2].error.s)
    /\ Len(data) = 2

\* C22: the HTML report has the winner card if and only if the results hold
\* exactly two distinct competitors, whatever their names, and the winner it
\* names is the competitor with the higher mean compression throughput.
C22_WinnerCallout ==
    report.by = "generate_benchmark_charts.main" =>
        LET names == {data[i].compiler : i \in DOMAIN data}
            MeanOf(c) == Mean(Column(Group(data, c, "compression"),
                                     "throughput_mbps"))
        IN  /\ report.winner # <<>> <=> Cardinality(names) = 2
            /\ report.winner # <<>> =>
                    /\ report.winner[1] \in names
                    /\ \A c \in names :
                            ~Greater(MeanOf(c), MeanOf(report.winner[1]))

\* C23: a ToolConfig is immutable after the configuration is loaded: no
\* operation of a sweep changes a field of a registered tool, so the
\* registry after run_benchmark equals the registry after _load_config.
C23_ToolConfigImmutable ==
    prog = "benchmark" =>
        /\ tool_names = ToolName
        /\ versions = [x \in Registered |-> UnknownText]

C25_NoRetry ==
    /\ [](/\ SpawnCount("compress") <= 1
          /\ SpawnCount("decompress") <= 1
          /\ Len(t.results) <= SpawnCount("compress") + SpawnCount("decompress")
          /\ prog = "benchmark" =>
                /\ trials <= Len(tools) * Len(threads_list) * runs
                /\ pc = "done" =>
                        trials = Len(tools) * Len(threads_list) * runs)
    /\ (prog = "benchmark" /\ pc = "loop") ~> (pc = "done")

\* C25 witness: a sweep of two runs whose first trial failed to compress
\* has returned after exactly two trials.
C25_Witness ==
    /\ prog = "benchmark"
    /\ pc = "done"
    /\ runs = 2
    /\ trials = 2
    /\ Len(pair_log) = 2
    /\ Len(pair_log[1]) = 1
    /\ ~pair_log[1][1].success

\* C26: at most one benchmarked process is live at any moment of a sweep:
\* the decompress process of a trial starts only after its compress
\* process has ended, and a trial starts only after the processes of the
\* trial before it have ended.
C26_OneProcessAtATime ==
    /\ (IF child = "none" THEN 0 ELSE 1) + orphans <= 1
    /\ pc = "decompress" => last_run.op = "compress" /\ ~last_run.tool_alive

\* C27: in benchmark_tool the output path put into the executed compress
\* command is the path whose existence and size are checked afterwards, for
\* every tool extension and every resolved fqc binary path: replacing "fqc"
\* by the binary path in the whole command leaves the input, output and
\* decompressed paths inside the command as they were.
C27_CommandPaths ==
    built.tool # "" =>
        /\ built.args.output = built.compressed
        /\ built.compress_cmd =
                Format(Replace(CompressTemplate[built.tool], "fqc", fqc_binary),
                       built.args)
        /\ built.decompress_cmd =
                Format(Replace(DecompressTemplate[built.tool], "fqc",
                               fqc_binary),
                       built.args)

\* C28: with one working directory shared by the trials of run_comparison,
\* the compressed and decompressed sizes recorded for a trial are those of
\* files that trial wrote: a file left by an earlier trial is never counted,
\* and never lets a trial that wrote no compressed file go on to
\* decompression.
C28_NoStaleArtifacts ==
    prog = "compiler" /\ caller = "sweep" =>
        /\ pc = "decompress" => t.c_wrote # NoFile
        /\ \A i \in DOMAIN t.results :
                LET r == t.results[i]
                IN  /\ r.operation = "compress" /\ r.output_size > 0 =>
                            t.c_wrote = r.output_size
                    /\ r.operation = "decompress" => t.c_wrote # NoFile
                    /\ r.operation = "decompress" /\ r.output_size > 0 =>
                            t.d_wrote = r.output_size

\* C29: the result sequence a sweep call returns holds only results that
\* call selected: run_comparison called a second time on the same object
\* returns the best results of the second sweep, at most one compress and
\* one decompress result per (compiler, thread count) pair, not those of
\* both sweeps.
C29_ResultsOfOneSweep ==
    prog = "compiler" /\ pc = "done" =>
        /\ Len(suite) <= 2 * Len(tools) * Len(threads_list)
        /\ \A i, j \in DOMAIN suite :
                /\ i < j
                /\ suite[i].tool = suite[j].tool
                /\ suite[i].threads = suite[j].threads
                => suite[i].operation # suite[j].operation

====
